---- MODULE Spec2Model ----
(***************************************************************************)
(* FirstSignal: the staged approval flow of server/clients/telegram.py     *)
(* (TelegramClient) and the admission endpoint of server/app.py.           *)
(*                                                                         *)
(* A handler is one action.  Every call a handler makes is appended, in    *)
(* program order, to the trace fx of the event being handled; a call that  *)
(* raises (or returns a failure) is recorded with ok = FALSE.              *)
(***************************************************************************)
EXTENDS Integers, Sequences, FiniteSets, TLC

VARIABLES
    pending_messages,   \* TelegramClient._pending_messages: key -> entry
    directory,          \* rows of the registered_users table
    last_message_id,    \* per chat, the id of the last image the transport sent
    allowed_chat_id,    \* run_listener's allowed_chat_id (NoneId: any chat)
    agent_loaded,       \* whether "from agent import agent" succeeded
    ev,                 \* the event handled last
    target,             \* the entry that event was about, as stored before it
    found,              \* the entry that event's handler looked up
    fx,                 \* the calls made while handling that event, in order
    hist,               \* per signal: what has been attempted for it so far
    updates,            \* the updates the transport has received; update_id = index
    confirmed,          \* the transport keeps the updates with update_id >= confirmed
    offset,             \* run_listener's offset (NoneId: None)
    batch,              \* update ids of "results" the for loop has not reached yet
    cur,                \* update id the for loop is at
    pc,                 \* where run_listener is: poll, iter, dispatch, down
    observed,           \* update ids the for loop has reached in this run
    dispatched,         \* update ids handed to a handler in this run
    crashed,            \* update ids in whose dispatch the process terminated
    poll_failed,        \* whether the last call of _get_updates raised
    handler_at          \* the store operation the handler of a press has reached

loopvars == <<updates, confirmed, offset, batch, cur, pc, observed, dispatched,
              crashed, poll_failed>>

vars == <<pending_messages, directory, last_message_id, allowed_chat_id,
          agent_loaded, ev, target, found, fx, hist, loopvars, handler_at>>

---------------------------------------------------------------------------
(* Bounds *)

MaxMsgId == 2
MaxSignals == 1
MaxFailures == 1
\* signals pending at once in the specification of concurrent signals
MaxLive == 2
\* rows the directory holds for one chat
MaxRows == 2
\* updates the transport receives in the specification of the polling loop
MaxUpdates == 3

---------------------------------------------------------------------------
(* Values *)

\* Python's None for an Optional[int]
NoneId == -1
\* Python's None for an Optional[str]
NoneStr == "None"
\* a request or an entry without a sender handle
NoHandle == NoneStr
\* the truth value Python gives an Optional[str]
TruthyStr(s) == s # NoneStr /\ s # ""
\* data without a ":" suffix
NoSfx == ""

\* two private chats: chat 1 (username "u1") and chat 2 (no username)
Chats == {1, 2}
MsgIds == 1..MaxMsgId
\* the message that carries the pressed buttons: never an image message
PromptId == MaxMsgId + 1

Digits == <<"0", "1", "2", "3", "4", "5", "6", "7", "8", "9">>

\* f"{n}" for a small non-negative int
IntToStr(n) == Digits[n + 1]

\* int(s), NoneId when int(s) raises ValueError; int("01") is 1
StrToInt(s) ==
    IF \E n \in 0..9 : Digits[n + 1] = s
    THEN CHOOSE n \in 0..9 : Digits[n + 1] = s
    ELSE IF s = "01" THEN 1 ELSE NoneId

\* the truth value Python gives an Optional[int]
Truthy(n) == n # NoneId /\ n # 0

\* from_user.username of the private chat c
Username(c) == IF c = 1 THEN "u1" ELSE NoHandle

\* username.lower().lstrip("@")
Normalize(h) == IF h = "@U1" THEN "u1" ELSE h

Messages == {"", "hi"}
SenderHandles == {NoHandle, "u1"}
TargetHandles == {NoHandle, "1", "2", "@U1", "zz"}
\* the suffix of a pressed token: none, an image id, or text int() rejects
Suffixes == {NoSfx, "x"} \cup {IntToStr(n) : n \in MsgIds}
ButtonActions == {"open", "accept", "ignore", "decline_accept", "register", "other"}

\* faulty variant: the key does not carry the chat
KeyWithoutChat(chat_id, action, sfx) == <<1, action, sfx>>

\* f"{chat_id}:{data}": the chat, the action and the suffix of the token
Key(chat_id, action, sfx) == <<chat_id, action, sfx>>

Entry(message, image_message_id, sender_handle, stage) ==
    [message |-> message, image_message_id |-> image_message_id,
     sender_handle |-> sender_handle, stage |-> stage]

\* dict.get(key) returning None
NoEntry == Entry(NoneStr, NoneId, NoneStr, "absent")

Get(pm, key) == IF key \in DOMAIN pm THEN pm[key] ELSE NoEntry

Put(pm, key, e) == [k \in DOMAIN pm \cup {key} |-> IF k = key THEN e ELSE pm[k]]

Del(pm, key) == [k \in DOMAIN pm \ {key} |-> pm[k]]

---------------------------------------------------------------------------
(* Texts and calls *)

Text(tmpl, msg, handle, note, btn) ==
    [tmpl |-> tmpl, msg |-> msg, handle |-> handle, note |-> note, btn |-> btn]

NoText == Text("", NoneStr, NoneStr, "", <<>>)

\* one call: step is the try block (effect) it belongs to
Call(step, op, chat, mid, text, key, ok) ==
    [step |-> step, op |-> op, chat |-> chat, mid |-> mid, text |-> text,
     key |-> key, ok |-> ok]

NoKey == <<>>

\* faulty variant: the exception of a failed call leaves the handler
TryPropagates(block, rest) ==
    IF \A i \in DOMAIN block : block[i].ok THEN block \o rest ELSE block

\* try: block / except Exception: log.  The block's calls (cut at the first one
\* that raised) are followed by the rest of the handler
Try(block, rest) == block \o rest

\* the sets of calls that fail while one event is handled
FailSetsOf(points) == {F \in SUBSET points : Cardinality(F) <= MaxFailures}

---------------------------------------------------------------------------
(* Directory client (clients/database.py) and handle resolution *)

\* a row of registered_users; copy tells apart the rows inserted for one chat
Row(chat_id, username, copy) ==
    [chat_id |-> chat_id, username |-> username, copy |-> copy]

\* the rows of registered_users with this chat_id
Rows(dir, chat_id) == {r \in dir : r.chat_id = chat_id}

\* faulty variant: a failing query answers True
IsChatRegisteredFailOpen(dir, chat_id, dbfail) ==
    dbfail \/ \E r \in dir : r.chat_id = chat_id

\* DatabaseClient.is_chat_registered: a failing query answers False
is_chat_registered(dir, chat_id, dbfail) ==
    ~dbfail /\ \E r \in dir : r.chat_id = chat_id

\* DatabaseClient.register_chat: the rows after the call.  The check answers
\* False when its query fails, and the insert is then made; the insert fails
\* when the database is down or rejects the row
register_chat(dir, chat_id, username, dbfail, insertfail) ==
    IF is_chat_registered(dir, chat_id, dbfail) THEN dir
    ELSE IF insertfail THEN dir
    ELSE dir \cup {Row(chat_id, username, Cardinality(Rows(dir, chat_id)) + 1)}

\* faulty variant: a handle nobody registered resolves to chat 1
FindChatDefaults(dir, username, dbfail) == 1

\* DatabaseClient.find_chat_id_by_username: NoneId when nothing matches
find_chat_id_by_username(dir, username, dbfail) ==
    IF ~TruthyStr(username) \/ dbfail THEN NoneId
    ELSE LET hits == {r \in dir : TruthyStr(r.username)
                                  /\ Normalize(r.username) = Normalize(username)}
         IN  IF hits = {} THEN NoneId ELSE (CHOOSE r \in hits : TRUE).chat_id

\* DatabaseClient.get_username_by_chat_id: NoHandle when there is no row
get_username_by_chat_id(dir, chat_id, dbfail) ==
    IF dbfail \/ ~(\E r \in dir : r.chat_id = chat_id) THEN NoHandle
    ELSE (CHOOSE r \in dir : r.chat_id = chat_id).username

\* _resolve_chat_id: the chat id, NoneId where the code raises ValueError
resolve_chat_id(dir, handle, dbfail) ==
    IF ~TruthyStr(handle) THEN NoneId
    ELSE IF StrToInt(handle) # NoneId THEN StrToInt(handle)
    ELSE find_chat_id_by_username(dir, handle, dbfail)

---------------------------------------------------------------------------
(* TelegramClient.send_decision_prompt and the admission endpoint *)

\* the result of a handler: the store, the entry looked up, the calls made
Result(pm, pmd, calls) == [pm |-> pm, found |-> pmd, fx |-> calls]

\* faulty variant: the token of the opening prompt carries no correlation id
OpenDataNoId(initial_message_id) == NoSfx

\* approve_data of the opening prompt
open_data_sfx(initial_message_id) ==
    IF initial_message_id # NoneId THEN IntToStr(initial_message_id) ELSE NoSfx

\* the entry send_decision_prompt stores, and under which key
decision_store(pm, chat_id, initial_message_id, pending_message, image_message_id, sender_handle) ==
    IF pending_message # NoneStr \/ image_message_id # NoneId \/ sender_handle # NoneStr
    THEN Put(pm, Key(chat_id, "open", open_data_sfx(initial_message_id)),
             Entry(pending_message, image_message_id, sender_handle, "open"))
    ELSE pm

send_decision_prompt(pm, chat_id, initial_message_id, pending_message, image_message_id, sender_handle, F) ==
    LET sfx == open_data_sfx(initial_message_id)
        pm1 == decision_store(pm, chat_id, initial_message_id, pending_message,
                              image_message_id, sender_handle)
        put == IF pending_message # NoneStr \/ image_message_id # NoneId
                  \/ sender_handle # NoneStr
               THEN <<Call("admit", "put_pending", chat_id, NoneId, NoText,
                           Key(chat_id, "open", sfx), TRUE)>>
               ELSE <<>>
    IN  Result(pm1, NoEntry,
               put \o <<Call("prompt", "send_message", chat_id, NoneId,
                             Text("decision_prompt", NoneStr, NoneStr, "",
                                  <<"open", "ignore", sfx>>),
                             NoKey, "decision_prompt" \notin F)>>)

\* app.send: resolve the target, send the image, then read payload.sender_handle
\* to call send_decision_prompt.  SendRequest has no such field, the read raises
\* AttributeError, and the except clause answers 502: the prompt is never reached
send(pm, dir, last, handle, message, F) ==
    LET chat_id == resolve_chat_id(dir, handle, "db" \in F)
        lookup  == <<Call("resolve", "resolve_chat_id", NoneId, NoneId,
                          Text("", NoneStr, handle, "", <<>>), NoKey,
                          chat_id # NoneId)>>
    IN  IF chat_id = NoneId
        THEN [status |-> 400, chat_id |-> NoneId, r |-> Result(pm, NoEntry, lookup)]
        ELSE LET photo == Call("image", "send_photo", chat_id, NoneId, NoText,
                               NoKey, "send_photo" \notin F)
                 field == Call("prompt", "payload.sender_handle", NoneId, NoneId,
                               Text("", message, NoneStr, "", <<>>), NoKey, FALSE)
             IN  [status |-> 502, chat_id |-> chat_id,
                  r |-> Result(pm, NoEntry,
                               IF photo.ok THEN lookup \o <<photo, field>>
                               ELSE lookup \o <<photo>>)]

---------------------------------------------------------------------------
(* TelegramClient._handle_callback_query *)

CallbackQuery(chat_id, action, sfx, message_id) ==
    [kind |-> "callback_query", chat_id |-> chat_id, action |-> action,
     sfx |-> sfx, message_id |-> message_id, text |-> NoneStr, status |-> 0]

\* initial_message_id parsed from data: None without a suffix or when int() raises
initial_id(cq) == IF cq.sfx = NoSfx THEN NoneId ELSE StrToInt(cq.sfx)

Answer(text, F) ==
    Call("answer", "answer_callback_query", NoneId, NoneId,
         Text(text, NoneStr, NoneStr, "", <<>>), NoKey, "answer" \notin F)

DeleteMessage(step, chat_id, message_id, F) ==
    Call(step, "delete_message", chat_id, message_id, NoText, NoKey, step \notin F)

\* the registration flow: register, acknowledge, edit the prompt
register_branch(dir, cq, F) ==
    [dir |-> register_chat(dir, cq.chat_id, Username(cq.chat_id), "db" \in F,
                           "db_insert" \in F),
     fx  |-> <<Call("register", "register_chat", cq.chat_id, NoneId,
                    Text("", NoneStr, Username(cq.chat_id), "", <<>>), NoKey,
                    is_chat_registered(dir, cq.chat_id, "db" \in F)
                       \/ "db_insert" \notin F),
               Answer("Registration complete", F)>>
             \o (IF Truthy(cq.message_id)
                 THEN <<Call("edit", "edit_message_text", cq.chat_id, cq.message_id,
                             Text("registration_complete", NoneStr, NoneStr, "", <<>>),
                             NoKey, "edit" \notin F)>>
                 ELSE <<>>)]

\* faulty variant: the stage-2 token and key carry no correlation id
AcceptDataNoId(initial_message_id) == NoSfx

\* accept_data / decline_data of the stage-2 prompt
accept_data_sfx(initial_message_id) ==
    IF Truthy(initial_message_id) THEN IntToStr(initial_message_id) ELSE NoSfx

\* faulty variant: the entry is copied to the accept key and the old key is kept
OpenRekeyCopies(pm, message_key, accept_key, pmd) ==
    Put(pm, accept_key, [pmd EXCEPT !.stage = "accept"])

\* faulty variant: the open press removes the entry and stores nothing for stage 2
OpenRekeyDrops(pm, message_key, accept_key, pmd) == Del(pm, message_key)

\* faulty variant: the entry is moved to the accept key with its stage unchanged
OpenRekeyKeepsStage(pm, message_key, accept_key, pmd) ==
    Del(Put(pm, accept_key, pmd), message_key)

\* the store after an open press has advanced pmd: stored under the accept key,
\* the old key deleted
open_rekey(pm, message_key, accept_key, pmd) ==
    Del(Put(pm, accept_key, [pmd EXCEPT !.stage = "accept"]), message_key)

\* faulty variant: the stage-2 prompt names the sender
AcceptPromptNamesSender(pmd, sfx) ==
    Text("accept_prompt", pmd.message, pmd.sender_handle, "",
         <<"accept", "decline_accept", sfx>>)

\* the text of the stage-2 prompt
accept_prompt_text(pmd, sfx) ==
    Text("accept_prompt", pmd.message, NoneStr, "", <<"accept", "decline_accept", sfx>>)

\* faulty variant: the retractions come after the rest of the branch
OpenDeletesLast(cq, pmd, F, rest) ==
    rest \o (IF Truthy(pmd.image_message_id)
             THEN <<DeleteMessage("delete_image", cq.chat_id, pmd.image_message_id, F)>>
             ELSE <<>>)
         \o <<DeleteMessage("delete_prompt", cq.chat_id, cq.message_id, F)>>

\* which deletes the open branch attempts before the stage-2 prompt
open_deletes(cq, pmd, F, rest) ==
    Try(IF Truthy(pmd.image_message_id)
        THEN <<DeleteMessage("delete_image", cq.chat_id, pmd.image_message_id, F)>>
        ELSE <<>>,
        Try(<<DeleteMessage("delete_prompt", cq.chat_id, cq.message_id, F)>>, rest))

\* Stage 1: "Yes" on the opening prompt
open_branch(pm, cq, F) ==
    LET message_key == Key(cq.chat_id, "open", cq.sfx)
        pmd == Get(pm, message_key)
        sfx == accept_data_sfx(initial_id(cq))
        accept_key == Key(cq.chat_id, "accept", sfx)
    IN  IF pmd # NoEntry /\ TruthyStr(pmd.message)
        THEN Result(open_rekey(pm, message_key, accept_key, pmd), pmd,
                 open_deletes(cq, pmd, F,
                     <<Call("rekey", "put_pending", cq.chat_id, NoneId, NoText,
                            accept_key, TRUE)>>
                     \o Try(<<Call("accept_prompt", "send_message", cq.chat_id, NoneId,
                                   accept_prompt_text(pmd, sfx), NoKey,
                                   "accept_prompt" \notin F)>>,
                            <<Call("rekey", "del_pending", cq.chat_id, NoneId, NoText,
                                   message_key, TRUE),
                              Answer("Message opened", F)>>)))
        ELSE Result(pm, pmd, <<Answer("Message opened", F)>>)

\* blockchain_result.get("success"): the persistence call returned success
store_succeeds(F) == "store_raise" \notin F /\ "store_false" \notin F

\* the persistence write, attempted when the entry has a message
accept_persist(pmd, F) ==
    IF TruthyStr(pmd.message)
    THEN <<Call("persist", "store_message", NoneId, NoneId,
                Text("", pmd.message, NoneStr, "", <<>>), NoKey, store_succeeds(F))>>
    ELSE <<>>

\* faulty variant: the sender is named only when the message was stored
RevealTextNeedsStore(pmd, stored) ==
    Text("reveal", NoneStr, IF stored THEN pmd.sender_handle ELSE NoneStr,
         IF stored THEN "tx" ELSE "", <<>>)

\* sender_text: the handle, and the transaction reference after a successful write
reveal_text(pmd, stored) ==
    Text("reveal", NoneStr, pmd.sender_handle, IF stored THEN "tx" ELSE "", <<>>)

\* Stage 4: ask the agent and send its recommendation to the sender (one try block)
accept_advice(dir, agent, cq, pmd, F) ==
    IF TruthyStr(pmd.sender_handle) /\ agent
    THEN LET sender_chat_id == resolve_chat_id(dir, pmd.sender_handle, "db" \in F)
             name  == Call("advice", "get_username_by_chat_id", cq.chat_id, NoneId,
                           NoText, NoKey, "db" \notin F)
             ask   == Call("advice", "agent", NoneId, NoneId,
                           Text("approved", pmd.message, NoneStr,
                                get_username_by_chat_id(dir, cq.chat_id, "db" \in F),
                                <<>>),
                           NoKey, "agent" \notin F)
             look  == Call("advice", "resolve_chat_id", NoneId, NoneId,
                           Text("", NoneStr, pmd.sender_handle, "", <<>>), NoKey,
                           sender_chat_id # NoneId)
             tell  == Call("advice", "send_message", sender_chat_id, NoneId,
                           Text("recommendation", NoneStr, NoneStr, "", <<>>), NoKey,
                           "recommendation" \notin F)
         IN  IF ~ask.ok THEN <<name, ask>>
             ELSE IF ~look.ok THEN <<name, ask, look>>
             ELSE <<name, ask, look, tell>>
    ELSE <<>>

\* faulty variant: the accepted entry is left in the store
AcceptCleanupKeeps(pm, message_key) == pm

\* the clean-up of the accept branch
accept_cleanup(pm, message_key) == Del(pm, message_key)

\* faulty variant: the sender is revealed before the persistence write
AcceptRevealsFirst(pm, dir, agent, cq, F) ==
    LET message_key == Key(cq.chat_id, "accept", cq.sfx)
        pmd == Get(pm, message_key)
    IN  IF pmd # NoEntry
        THEN Result(accept_cleanup(pm, message_key), pmd,
                 <<Call("reveal", "send_message", cq.chat_id, NoneId,
                        reveal_text(pmd, FALSE), NoKey, "reveal" \notin F)>>
                 \o accept_persist(pmd, F)
                 \o <<Call("edit", "edit_message_text", cq.chat_id, cq.message_id,
                           Text("message_text", pmd.message, NoneStr, "", <<>>),
                           NoKey, "edit" \notin F),
                      Call("cleanup", "del_pending", cq.chat_id, NoneId, NoText,
                           message_key, TRUE),
                      Answer("Message accepted!", F)>>)
        ELSE Result(pm, pmd, <<Answer("Message accepted!", F)>>)

\* Stage 2: "Accept" on the stage-2 prompt
accept_branch(pm, dir, agent, cq, F) ==
    LET message_key == Key(cq.chat_id, "accept", cq.sfx)
        pmd == Get(pm, message_key)
        persist == accept_persist(pmd, F)
        stored == persist # <<>> /\ persist[1].ok
    IN  IF pmd # NoEntry
        THEN Result(accept_cleanup(pm, message_key), pmd,
                 Try(persist,
                 Try(<<Call("edit", "edit_message_text", cq.chat_id, cq.message_id,
                            Text("message_text", pmd.message, NoneStr, "", <<>>),
                            NoKey, "edit" \notin F)>>,
                 Try(<<Call("reveal", "send_message", cq.chat_id, NoneId,
                            reveal_text(pmd, stored), NoKey, "reveal" \notin F)>>,
                 Try(accept_advice(dir, agent, cq, pmd, F),
                     <<Call("cleanup", "del_pending", cq.chat_id, NoneId, NoText,
                            message_key, TRUE),
                       Answer("Message accepted!", F)>>)))))
        ELSE Result(pm, pmd, <<Answer("Message accepted!", F)>>)

\* faulty variant: ignore looks the entry up under the stage-2 key
DeclineKeyStage2(cq) ==
    IF cq.action = "ignore" THEN Key(cq.chat_id, "accept", cq.sfx)
    ELSE Key(cq.chat_id, cq.action, cq.sfx)

\* the key a decline press looks up: the open key for ignore
\* (data.replace("ignore", "open")), the pressed data itself for decline_accept
decline_key(cq) ==
    IF cq.action = "ignore" THEN Key(cq.chat_id, "open", cq.sfx)
    ELSE Key(cq.chat_id, cq.action, cq.sfx)

\* faulty variant: the decline notice goes to the pressing chat
IgnoreNotifyRecipient(dir, cq, pmd, F) ==
    IF cq.action = "ignore" /\ pmd # NoEntry /\ TruthyStr(pmd.sender_handle)
    THEN <<Call("notify", "resolve_chat_id", NoneId, NoneId,
                Text("", NoneStr, pmd.sender_handle, "", <<>>), NoKey,
                resolve_chat_id(dir, pmd.sender_handle, "db" \in F) # NoneId),
           Call("notify", "send_message", cq.chat_id, NoneId,
                Text("decline_notice", NoneStr, NoneStr, "", <<>>), NoKey,
                "notify" \notin F)>>
    ELSE <<>>

\* faulty variant: every decline press sends the decline notice
IgnoreNotifyUnchecked(dir, cq, pmd, F) ==
    <<Call("notify", "send_message",
           resolve_chat_id(dir, IF pmd # NoEntry THEN pmd.sender_handle ELSE NoHandle,
                           "db" \in F),
           NoneId, Text("decline_notice", NoneStr, NoneStr, "", <<>>), NoKey,
           "notify" \notin F)>>

\* the decline notice to the sender (one try block): resolve, then send
ignore_notify(dir, cq, pmd, F) ==
    IF cq.action = "ignore" /\ pmd # NoEntry /\ TruthyStr(pmd.sender_handle)
    THEN LET sender_id == resolve_chat_id(dir, pmd.sender_handle, "db" \in F)
             look == Call("notify", "resolve_chat_id", NoneId, NoneId,
                          Text("", NoneStr, pmd.sender_handle, "", <<>>), NoKey,
                          sender_id # NoneId)
             tell == Call("notify", "send_message", sender_id, NoneId,
                          Text("decline_notice", NoneStr, NoneStr, "", <<>>), NoKey,
                          "notify" \notin F)
         IN  IF look.ok THEN <<look, tell>> ELSE <<look>>
    ELSE <<>>

\* faulty variant: the neutral message of a decline quotes the declined message
DeclineTailShowsMessage(cq, pmd, F) ==
    <<Call("kills", "send_message", cq.chat_id, NoneId,
           Text("kills", pmd.message, NoneStr, "", <<>>), NoKey, "kills" \notin F),
      Answer("Declined", F)>>

\* the retractions and the neutral message every decline press ends with
decline_tail(cq, pmd, F) ==
    Try(IF pmd # NoEntry /\ Truthy(pmd.image_message_id)
        THEN <<DeleteMessage("delete_image", cq.chat_id, pmd.image_message_id, F)>>
        ELSE <<>>,
    Try(IF initial_id(cq) # NoneId
        THEN <<DeleteMessage("delete_initial", cq.chat_id, initial_id(cq), F)>>
        ELSE <<>>,
    Try(<<DeleteMessage("delete_prompt", cq.chat_id, cq.message_id, F)>>,
    Try(<<Call("kills", "send_message", cq.chat_id, NoneId,
               Text("kills", NoneStr, NoneStr, "", <<>>), NoKey, "kills" \notin F)>>,
        <<Answer("Declined", F)>>))))

\* Declines at either stage
decline_branch(pm, dir, cq, F) ==
    LET key == decline_key(cq)
        pmd == Get(pm, key)
        present == key \in DOMAIN pm
    IN  Result(IF present THEN Del(pm, key) ELSE pm, pmd,
               Try(ignore_notify(dir, cq, pmd, F),
                   (IF present
                    THEN <<Call("cleanup", "del_pending", cq.chat_id, NoneId, NoText,
                                key, TRUE)>>
                    ELSE <<>>)
                   \o decline_tail(cq, pmd, F)))

\* faulty variant: events of every chat are handled
NotAllowedNever(allowed, chat_id) == FALSE

\* allowed_chat_id is not None and chat_id != allowed_chat_id
not_allowed(allowed, chat_id) == allowed # NoneId /\ chat_id # allowed

\* _handle_callback_query: the store, the directory and the calls after one press
handle_callback_query(pm, dir, allowed, agent, cq, F) ==
    IF not_allowed(allowed, cq.chat_id)
    THEN [dir |-> dir, r |-> Result(pm, NoEntry, <<>>)]
    ELSE IF cq.action = "register" /\ cq.sfx = NoSfx
    THEN LET g == register_branch(dir, cq, F)
         IN  [dir |-> g.dir, r |-> Result(pm, NoEntry, g.fx)]
    ELSE IF ~Truthy(cq.message_id)
    THEN [dir |-> dir, r |-> Result(pm, NoEntry, <<>>)]
    ELSE [dir |-> dir,
          r |-> CASE cq.action = "open" -> open_branch(pm, cq, F)
                  [] cq.action = "accept" -> accept_branch(pm, dir, agent, cq, F)
                  [] cq.action \in {"ignore", "decline_accept"} ->
                         decline_branch(pm, dir, cq, F)
                  [] OTHER -> Result(pm, NoEntry, <<>>)]

---------------------------------------------------------------------------
(* TelegramClient._handle_message *)

Message(chat_id, text) ==
    [kind |-> "message", chat_id |-> chat_id, action |-> "", sfx |-> NoSfx,
     message_id |-> NoneId, text |-> text, status |-> 0]

\* faulty variant: a plain message of a registered chat empties the store
MessageReplyClears(pm, agent, m, F) ==
    Result([k \in {} |-> NoEntry], NoEntry, <<>>)

\* faulty variant: the generic prompt is stored with the text as its message
MessageReplyStores(pm, agent, m, F) ==
    send_decision_prompt(pm, m.chat_id, NoneId, m.text, NoneId, NoneStr, F)

\* the reply path of a registered chat: the agent's answer, else the generic prompt
message_reply(pm, agent, m, F) ==
    LET ask  == Call("reply", "agent", NoneId, NoneId,
                     Text("user_input", m.text, NoneStr, "", <<>>), NoKey,
                     "agent" \notin F)
        tell == Call("reply", "send_message", m.chat_id, NoneId,
                     Text("agent_reply", NoneStr, NoneStr, "", <<>>), NoKey,
                     "agent_reply" \notin F)
        fallback == send_decision_prompt(pm, m.chat_id, NoneId, NoneStr, NoneId,
                                         NoneStr, F)
    IN  IF TruthyStr(m.text) /\ agent
        THEN IF ~ask.ok THEN Result(fallback.pm, NoEntry, <<ask>> \o fallback.fx)
             ELSE IF ~tell.ok
             THEN Result(fallback.pm, NoEntry, <<ask, tell>> \o fallback.fx)
             ELSE Result(pm, NoEntry, <<ask, tell>>)
        ELSE fallback

handle_message(pm, dir, allowed, agent, m, F) ==
    IF not_allowed(allowed, m.chat_id)
    THEN Result(pm, NoEntry, <<>>)
    ELSE LET check == Call("gate", "is_chat_registered", m.chat_id, NoneId, NoText,
                           NoKey, "db" \notin F)
         IN  IF ~is_chat_registered(dir, m.chat_id, "db" \in F)
             THEN Result(pm, NoEntry,
                         <<check,
                           Call("gate", "send_message", m.chat_id, NoneId,
                                Text("welcome", NoneStr, NoneStr, "", <<"register">>),
                                NoKey, "welcome" \notin F)>>)
             ELSE LET r == message_reply(pm, agent, m, F)
                  IN  Result(r.pm, NoEntry, <<check>> \o r.fx)

---------------------------------------------------------------------------
(* What has been attempted for each signal *)

\* a signal: the recipient chat and the id of its image message
Signals == Chats \X MsgIds

NoHist == [admitted |-> FALSE, opened |-> FALSE, ignored |-> FALSE, declined |-> FALSE,
           reveal |-> 0, persist |-> 0, notify |-> 0, advice |-> 0, aprompt |-> 0]

StageActions == {"open", "accept", "ignore", "decline_accept"}

\* the stage whose prompt carries the button
StageOf(action) == IF action \in {"open", "ignore"} THEN "open" ELSE "accept"

\* a press the handler takes into the multi-stage flow
InFlow(allowed, cq) ==
    /\ cq.kind = "callback_query"
    /\ cq.action \in StageActions
    /\ Truthy(cq.message_id)
    /\ (allowed = NoneId \/ cq.chat_id = allowed)

\* the entry stored for the prompt whose button was pressed
TargetOf(pm, allowed, cq) ==
    IF InFlow(allowed, cq) THEN Get(pm, Key(cq.chat_id, StageOf(cq.action), cq.sfx))
    ELSE NoEntry


IsReveal(c) == c.op = "send_message" /\ c.text.tmpl = "reveal"
IsPersist(c) == c.op = "store_message"
IsNotify(c) == c.op = "send_message" /\ c.text.tmpl = "decline_notice"
IsAdvice(c) == c.op = "agent" /\ c.text.tmpl = "approved"
IsAcceptPrompt(c) == c.op = "send_message" /\ c.text.tmpl = "accept_prompt"

IsAnswer(c) == c.op = "answer_callback_query"

\* whether the call c is an effect of the kind named
IsKind(kind, c) ==
    CASE kind = "reveal" -> IsReveal(c)
      [] kind = "persist" -> IsPersist(c)
      [] kind = "notify" -> IsNotify(c)
      [] kind = "advice" -> IsAdvice(c)
      [] kind = "accept_prompt" -> IsAcceptPrompt(c)
      [] kind = "answer" -> IsAnswer(c)

\* how many calls of the trace are effects of the kind named
Count(calls, kind) == Cardinality({i \in DOMAIN calls : IsKind(kind, calls[i])})

Min(a, b) == IF a < b THEN a ELSE b

\* the signal a press is about: the chat and the image id its token carries
SignalOf(cq) == <<cq.chat_id, initial_id(cq)>>

\* hist after the press cq, which was about the stored entry t and made calls
Record(h, cq, t, calls) ==
    IF SignalOf(cq) \notin Signals THEN h
    ELSE LET s == SignalOf(cq)
         IN  [h EXCEPT ![s] =
                [admitted |-> @.admitted,
                 opened   |-> @.opened \/ (t # NoEntry /\ cq.action = "open"),
                 ignored  |-> @.ignored \/ (t # NoEntry /\ cq.action = "ignore"),
                 declined |-> @.declined
                              \/ (t # NoEntry /\ cq.action \in {"ignore", "decline_accept"}),
                 reveal   |-> Min(2, @.reveal + Count(calls, "reveal")),
                 persist  |-> Min(2, @.persist + Count(calls, "persist")),
                 notify   |-> Min(2, @.notify + Count(calls, "notify")),
                 advice   |-> Min(2, @.advice + Count(calls, "advice")),
                 aprompt  |-> Min(2, @.aprompt + Count(calls, "accept_prompt"))]]

---------------------------------------------------------------------------
(* The state machine *)

RECURSIVE Total(_, _)
Total(f, S) == IF S = {} THEN 0
               ELSE LET c == CHOOSE c \in S : TRUE IN f[c] + Total(f, S \ {c})

\* no event is being handled: the listener is between two dispatches
Idle == [kind |-> "idle", chat_id |-> NoneId, action |-> "", sfx |-> NoSfx,
         message_id |-> NoneId, text |-> NoneStr, status |-> 0]

\* the client after construction and the listener before its first poll
ClientInit ==
    /\ pending_messages = [k \in {} |-> NoEntry]
    /\ directory = {}
    /\ last_message_id = [c \in Chats |-> 0]
    /\ agent_loaded \in BOOLEAN
    /\ ev = Idle
    /\ target = NoEntry
    /\ found = NoEntry
    /\ fx = <<>>
    /\ hist = [s \in Signals |-> NoHist]
    /\ updates = <<>>
    /\ confirmed = 1
    /\ offset = NoneId
    /\ batch = <<>>
    /\ cur = NoneId
    /\ pc = "poll"
    /\ observed = {}
    /\ dispatched = {}
    /\ crashed = {}
    /\ poll_failed = FALSE
    /\ handler_at = "idle"

\* TELEGRAM_ALLOWED_CHAT_ID is not set: the listener takes the events of any chat
Init == ClientInit /\ allowed_chat_id = NoneId

\* POST /send
Send ==
    \E handle \in TargetHandles, message \in Messages,
       F \in FailSetsOf({"db", "send_photo"}) :
        LET out == send(pending_messages, directory, last_message_id, handle,
                        message, F)
            c == out.chat_id
            sent == out.status # 400 /\ out.r.fx[2].ok
        IN  /\ ev = Idle
            /\ c \in Chats \cup {NoneId}
            /\ c # NoneId => /\ last_message_id[c] < MaxMsgId
                             /\ Total(last_message_id, Chats) < MaxSignals
            /\ pending_messages' = out.r.pm
            /\ last_message_id' = IF sent THEN [last_message_id EXCEPT ![c] = @ + 1]
                                  ELSE last_message_id
            /\ ev' = [kind |-> "send", chat_id |-> c, action |-> "", sfx |-> NoSfx,
                      message_id |-> NoneId, text |-> NoneStr, status |-> out.status]
            /\ target' = NoEntry
            /\ found' = NoEntry
            /\ fx' = out.r.fx
            /\ UNCHANGED <<handler_at, directory, allowed_chat_id, agent_loaded, hist, loopvars>>

\* a caller that has sent the image to chat_id calls send_decision_prompt with
\* the image's message id, the message and the sender's handle; at most n signals
AdmitUpTo(n) ==
    \E chat_id \in Chats, message \in Messages, sender_handle \in SenderHandles,
       F \in FailSetsOf({"decision_prompt"}) :
        LET image_message_id == last_message_id[chat_id] + 1
            r == send_decision_prompt(pending_messages, chat_id, image_message_id,
                                      message, image_message_id, sender_handle, F)
        IN  /\ ev = Idle
            /\ last_message_id[chat_id] < MaxMsgId
            /\ Total(last_message_id, Chats) < n
            /\ pending_messages' = r.pm
            /\ last_message_id' = [last_message_id EXCEPT ![chat_id] = @ + 1]
            /\ hist' = [hist EXCEPT ![<<chat_id, image_message_id>>].admitted = TRUE]
            /\ ev' = [kind |-> "admit", chat_id |-> chat_id, action |-> "",
                      sfx |-> NoSfx, message_id |-> NoneId, text |-> NoneStr,
                      status |-> 0]
            /\ target' = NoEntry
            /\ found' = NoEntry
            /\ fx' = r.fx
            /\ UNCHANGED <<handler_at, directory, allowed_chat_id, agent_loaded, loopvars>>

Admit == AdmitUpTo(MaxSignals)

\* the calls of a press that can fail, by the action pressed
FailsFor(action) ==
    CASE action = "open" -> {"delete_image", "delete_prompt", "accept_prompt", "answer"}
      [] action = "accept" -> {"store_raise", "store_false", "edit", "reveal", "agent",
                               "db", "recommendation", "answer"}
      [] action = "ignore" -> {"db", "notify", "delete_image", "delete_initial",
                               "delete_prompt", "kills", "answer"}
      [] action = "decline_accept" -> {"delete_initial", "delete_prompt", "kills",
                                       "answer"}
      [] action = "register" -> {"db", "db_insert", "answer", "edit"}
      [] OTHER -> {}

\* the presses the transport delivers
Presses ==
    {cq \in [kind : {"callback_query"}, chat_id : Chats, action : ButtonActions,
             sfx : Suffixes, message_id : {NoneId, PromptId}, text : {NoneStr},
             status : {0}] :
        /\ cq.message_id = NoneId => cq.sfx = IntToStr(1)
        /\ cq.action = "other" => cq.sfx = NoSfx}

\* the listener dispatches a button press, one of P
PressIn(P) ==
    \E cq \in P :
      \E F \in FailSetsOf(IF Truthy(cq.message_id) \/ cq.action = "register"
                          THEN FailsFor(cq.action) ELSE {}) :
        LET t == TargetOf(pending_messages, allowed_chat_id, cq)
            out == handle_callback_query(pending_messages, directory, allowed_chat_id,
                                         agent_loaded, cq, F)
        IN  /\ ev = Idle
            /\ Cardinality(Rows(out.dir, cq.chat_id)) <= MaxRows
            /\ pending_messages' = out.r.pm
            /\ directory' = out.dir
            /\ ev' = cq
            /\ target' = t
            /\ found' = out.r.found
            /\ fx' = out.r.fx
            /\ hist' = Record(hist, cq, t, out.r.fx)
            /\ UNCHANGED <<handler_at, last_message_id, allowed_chat_id, agent_loaded, loopvars>>

Press == PressIn(Presses)

\* the presses of the buttons the prompts of admitted signals carry
LivePresses ==
    {cq \in Presses : /\ cq.action \in StageActions
                      /\ cq.message_id = PromptId
                      /\ cq.sfx \in {IntToStr(n) : n \in MsgIds}}

\* the listener dispatches a plain message
PlainMessage ==
    \E chat_id \in Chats, text \in {"", "yo"},
       F \in FailSetsOf({"db", "welcome", "agent", "agent_reply", "decision_prompt"}) :
        LET m == Message(chat_id, text)
            out == handle_message(pending_messages, directory, allowed_chat_id,
                                  agent_loaded, m, F)
        IN  /\ ev = Idle
            /\ pending_messages' = out.pm
            /\ ev' = m
            /\ target' = NoEntry
            /\ found' = NoEntry
            /\ fx' = out.fx
            /\ UNCHANGED <<handler_at, directory, last_message_id, allowed_chat_id, agent_loaded,
                           hist, loopvars>>

\* the handler returns: its locals are gone, the listener takes the next event
Return ==
    /\ ev # Idle
    /\ ev' = Idle
    /\ target' = NoEntry
    /\ found' = NoEntry
    /\ fx' = <<>>
    /\ UNCHANGED <<handler_at, pending_messages, directory, last_message_id, allowed_chat_id,
                   agent_loaded, hist, loopvars>>

Next == Send \/ Admit \/ Press \/ PlainMessage \/ Return

Spec == Init /\ [][Next]_vars

\* several signals pending at once: admissions and presses only
NextLive == AdmitUpTo(MaxLive) \/ PressIn(LivePresses) \/ Return

SpecLive == Init /\ [][NextLive]_vars

---------------------------------------------------------------------------
(* TelegramClient.run_listener: the polling loop, update by update *)

\* an update that is neither a callback_query nor a message
OtherUpdate ==
    [kind |-> "update", chat_id |-> NoneId, action |-> "", sfx |-> NoSfx,
     message_id |-> NoneId, text |-> NoneStr, status |-> 0]

\* the updates users cause while the loop runs
LoopEvents ==
    {CallbackQuery(1, "register", NoSfx, PromptId),
     CallbackQuery(2, "open", IntToStr(1), PromptId),
     Message(1, "yo"),
     OtherUpdate}

\* the calls of a dispatched handler that can fail
FailsLoop == {"db", "answer", "welcome"}

\* faulty variant: the cursor is set to the update's id
AdvanceOffsetAt(update_id) == update_id

\* offset = update["update_id"] + 1
advance_offset(update_id) == update_id + 1

\* faulty variant: the poll never passes the cursor
PollOffsetNone(off) == NoneId

\* payload["offset"] of _get_updates: the cursor when it is not None
poll_offset(off) == off

Max(a, b) == IF a > b THEN a ELSE b

\* faulty variant: the loop takes the last update of the batch first
NextUpdateLast(results) == results[Len(results)]

\* for update in results: the update the loop takes next
next_update(results) == Head(results)

\* the ids lo..hi in ascending order
SeqFromTo(lo, hi) == [i \in 1..(hi - lo + 1) |-> lo + i - 1]

\* getUpdates: the first update the transport returns.  It keeps the updates
\* from "confirmed" on and forgets those below an offset it is given
first_returned(conf, off) == IF off = NoneId THEN conf ELSE Max(conf, off)

\* a user causes an update, one of E
ArriveOf(E) ==
    \E e \in E :
        /\ Len(updates) < MaxUpdates
        /\ updates' = Append(updates, e)
        /\ UNCHANGED <<handler_at, pending_messages, directory, last_message_id, allowed_chat_id,
                       agent_loaded, ev, target, found, fx, hist, confirmed, offset,
                       batch, cur, pc, observed, dispatched, crashed, poll_failed>>

Arrive == ArriveOf(LoopEvents)

\* updates = self._get_updates(offset=offset, timeout=50) returns
PollOk ==
    LET lo == first_returned(confirmed, poll_offset(offset))
    IN  /\ pc = "poll"
        /\ batch' = SeqFromTo(lo, Len(updates))
        /\ confirmed' = lo
        /\ pc' = "iter"
        /\ poll_failed' = FALSE
        /\ UNCHANGED <<handler_at, pending_messages, directory, last_message_id, allowed_chat_id,
                       agent_loaded, ev, target, found, fx, hist, updates, offset,
                       cur, observed, dispatched, crashed>>

\* _get_updates raises: the error is logged and the loop polls again
PollFail ==
    /\ pc = "poll"
    /\ poll_failed' = TRUE
    /\ UNCHANGED <<handler_at, pending_messages, directory, last_message_id, allowed_chat_id,
                   agent_loaded, ev, target, found, fx, hist, updates, confirmed,
                   offset, batch, cur, pc, observed, dispatched, crashed>>

\* for update in results: the next update; the cursor moves past it first
Advance ==
    /\ pc = "iter"
    /\ batch # <<>>
    /\ cur' = next_update(batch)
    /\ batch' = Tail(batch)
    /\ offset' = advance_offset(next_update(batch))
    /\ observed' = observed \cup {next_update(batch)}
    /\ pc' = IF updates[next_update(batch)].kind \in {"callback_query", "message"}
             THEN "dispatch" ELSE "iter"
    /\ UNCHANGED <<handler_at, pending_messages, directory, last_message_id, allowed_chat_id,
                   agent_loaded, ev, target, found, fx, hist, updates, confirmed,
                   dispatched, crashed, poll_failed>>

\* the for loop is through the batch: back to the poll
EndBatch ==
    /\ pc = "iter"
    /\ batch = <<>>
    /\ pc' = "poll"
    /\ UNCHANGED <<handler_at, pending_messages, directory, last_message_id, allowed_chat_id,
                   agent_loaded, ev, target, found, fx, hist, updates, confirmed,
                   offset, batch, cur, observed, dispatched, crashed, poll_failed>>

\* the handler of the update runs to its end; its calls in Fs can fail
DispatchWith(Fs) ==
    \E F \in FailSetsOf(Fs) :
        LET e == updates[cur]
            t == TargetOf(pending_messages, allowed_chat_id, e)
            out == IF e.kind = "callback_query"
                   THEN handle_callback_query(pending_messages, directory,
                                              allowed_chat_id, agent_loaded, e, F)
                   ELSE [dir |-> directory,
                         r |-> handle_message(pending_messages, directory,
                                              allowed_chat_id, agent_loaded, e, F)]
        IN  /\ pc = "dispatch"
            /\ Cardinality(Rows(out.dir, e.chat_id)) <= MaxRows
            /\ pending_messages' = out.r.pm
            /\ directory' = out.dir
            /\ ev' = e
            /\ target' = t
            /\ found' = out.r.found
            /\ fx' = out.r.fx
            /\ hist' = IF e.kind = "callback_query" THEN Record(hist, e, t, out.r.fx)
                       ELSE hist
            /\ dispatched' = dispatched \cup {cur}
            /\ pc' = "iter"
            /\ UNCHANGED <<handler_at, last_message_id, allowed_chat_id, agent_loaded, updates,
                           confirmed, offset, batch, cur, observed, crashed,
                           poll_failed>>

Dispatch == DispatchWith(FailsLoop)

\* the process terminates while the update is being dispatched: what it held in
\* memory (the store, the cursor, the batch) is gone
Crash ==
    /\ pc = "dispatch"
    /\ pc' = "down"
    /\ crashed' = crashed \cup {cur}
    /\ pending_messages' = [k \in {} |-> NoEntry]
    /\ batch' = <<>>
    /\ ev' = Idle
    /\ target' = NoEntry
    /\ found' = NoEntry
    /\ fx' = <<>>
    /\ UNCHANGED <<handler_at, directory, last_message_id, allowed_chat_id, agent_loaded, hist,
                   updates, confirmed, offset, cur, observed, dispatched,
                   poll_failed>>

\* the process is started again: run_listener begins with offset = None
Restart ==
    /\ pc = "down"
    /\ pc' = "poll"
    /\ offset' = NoneId
    /\ cur' = NoneId
    /\ observed' = {}
    /\ dispatched' = {}
    /\ poll_failed' = FALSE
    /\ UNCHANGED <<handler_at, pending_messages, directory, last_message_id, allowed_chat_id,
                   agent_loaded, ev, target, found, fx, hist, updates, confirmed,
                   batch, crashed>>

NextLoop ==
    Arrive \/ PollOk \/ PollFail \/ Advance \/ EndBatch \/ Dispatch \/ Crash \/ Restart

SpecLoop == Init /\ [][NextLoop]_vars

\* the loop keeps running: a step it can take is taken; a poll succeeds in the
\* end; termination of the process is not bound to happen
SpecLoopFair ==
    /\ SpecLoop
    /\ WF_vars(PollOk) /\ WF_vars(Advance) /\ WF_vars(EndBatch)
    /\ WF_vars(Dispatch) /\ WF_vars(Restart)

---------------------------------------------------------------------------
(* The polling loop while signals are admitted *)

\* the chat the signals of this specification are sent to
LiveChat == 2

\* the updates users cause: presses on the prompts of the signal, and events
\* that are not about it
LiveLoopEvents ==
    {CallbackQuery(LiveChat, "open", IntToStr(1), PromptId),
     CallbackQuery(LiveChat, "accept", IntToStr(1), PromptId),
     CallbackQuery(LiveChat, "ignore", IntToStr(2), PromptId),
     CallbackQuery(1, "register", NoSfx, PromptId),
     Message(1, "yo")}

\* the calls of a dispatched handler that can fail
FailsLive == {"delete_image", "accept_prompt", "reveal", "answer"}

\* the request-handler thread admits a signal while the listener thread runs:
\* send_decision_prompt is called with the image's id, the message and the sender
AdmitInLoop ==
    \E message \in {"hi"}, sender_handle \in {"u1"} :
        LET image_message_id == last_message_id[LiveChat] + 1
            r == send_decision_prompt(pending_messages, LiveChat, image_message_id,
                                      message, image_message_id, sender_handle, {})
        IN  /\ Total(last_message_id, Chats) < MaxSignals
            /\ pending_messages' = r.pm
            /\ last_message_id' = [last_message_id EXCEPT ![LiveChat] = @ + 1]
            /\ hist' = [hist EXCEPT ![<<LiveChat, image_message_id>>].admitted = TRUE]
            /\ UNCHANGED <<handler_at, directory, allowed_chat_id, agent_loaded, ev, target, found,
                           fx, loopvars>>

NextLoopLive ==
    \/ AdmitInLoop
    \/ ArriveOf(LiveLoopEvents)
    \/ PollOk \/ PollFail \/ Advance \/ EndBatch
    \/ DispatchWith(FailsLive)

SpecLoopLive == Init /\ [][NextLoopLive]_vars

---------------------------------------------------------------------------
(* The two threads at the store: the handler of a press, store operation by
   store operation, beside the admission of signals.  The transport calls the
   handler makes between two store operations do not touch the store. *)

\* what a caller admits as the signal with image id n
AdmittedEntry(n) == Entry("hi", n, "u1", "open")

\* faulty variant: the store is replaced by a dict that holds the new entry
AdmitStoreReplaces(pm, message_key, e) == [k \in {message_key} |-> e]

\* self._pending_messages[message_key] = {...}: one dict assignment
admit_store(pm, message_key, e) == Put(pm, message_key, e)

\* the request-handler thread: send_decision_prompt stores the entry of a signal
\* whose image was just sent
AdmitStore ==
    \E chat_id \in Chats :
        LET n == last_message_id[chat_id] + 1
        IN  /\ n <= MaxMsgId
            /\ Total(last_message_id, Chats) < MaxLive
            /\ pending_messages' = admit_store(pending_messages,
                                               Key(chat_id, "open", open_data_sfx(n)),
                                               AdmittedEntry(n))
            /\ last_message_id' = [last_message_id EXCEPT ![chat_id] = n]
            /\ hist' = [hist EXCEPT ![<<chat_id, n>>].admitted = TRUE]
            /\ UNCHANGED <<directory, allowed_chat_id, agent_loaded, ev, target, found,
                           fx, loopvars, handler_at>>

\* the listener thread enters the handler of a press and reads the store:
\* pending_message_data = self._pending_messages.get(key).  The buttons of a
\* signal exist once its opening prompt was sent, which follows the store of
\* its entry, and they can be pressed again at any time after
HandlerGet ==
    \E cq \in LivePresses :
        LET key == IF cq.action = "decline_accept" THEN decline_key(cq)
                   ELSE Key(cq.chat_id, StageOf(cq.action), cq.sfx)
            pmd == Get(pending_messages, key)
        IN  /\ handler_at = "idle"
            /\ SignalOf(cq) \in Signals /\ hist[SignalOf(cq)].admitted
            /\ ev' = cq
            /\ found' = pmd
            /\ target' = pmd
            /\ handler_at' = CASE cq.action = "open" /\ pmd # NoEntry
                                  /\ TruthyStr(pmd.message) -> "open_found"
                               [] cq.action = "accept" /\ pmd # NoEntry -> "accept_found"
                               [] cq.action \in {"ignore", "decline_accept"} ->
                                      "decline_found"
                               [] OTHER -> "answer"
            /\ hist' = Record(hist, cq, pmd, <<>>)
            /\ UNCHANGED <<pending_messages, directory, last_message_id,
                           allowed_chat_id, agent_loaded, fx, loopvars>>

\* open: pending_message_data["stage"] = "accept" changes the stored dict itself
OpenStage ==
    LET message_key == Key(ev.chat_id, "open", ev.sfx)
    IN  /\ handler_at = "open_found"
        /\ found' = [found EXCEPT !.stage = "accept"]
        /\ pending_messages' = IF message_key \in DOMAIN pending_messages
                               THEN [pending_messages EXCEPT ![message_key] = found']
                               ELSE pending_messages
        /\ handler_at' = "open_staged"
        /\ UNCHANGED <<directory, last_message_id, allowed_chat_id, agent_loaded, ev,
                       target, fx, hist, loopvars>>

\* open: self._pending_messages[accept_key] = pending_message_data
OpenPut ==
    LET accept_key == Key(ev.chat_id, "accept", accept_data_sfx(initial_id(ev)))
    IN  /\ handler_at = "open_staged"
        /\ pending_messages' = Put(pending_messages, accept_key, found)
        /\ handler_at' = "open_stored"
        /\ UNCHANGED <<directory, last_message_id, allowed_chat_id, agent_loaded, ev,
                       target, found, fx, hist, loopvars>>

\* open, after the accept prompt: if message_key in ...: del ...[message_key]
OpenDel ==
    LET message_key == Key(ev.chat_id, "open", ev.sfx)
    IN  /\ handler_at = "open_stored"
        /\ pending_messages' = IF message_key \in DOMAIN pending_messages
                               THEN Del(pending_messages, message_key)
                               ELSE pending_messages
        /\ handler_at' = "answer"
        /\ UNCHANGED <<directory, last_message_id, allowed_chat_id, agent_loaded, ev,
                       target, found, fx, hist, loopvars>>

\* accept, after its effects: del self._pending_messages[message_key]
AcceptDel ==
    LET message_key == Key(ev.chat_id, "accept", ev.sfx)
    IN  /\ handler_at = "accept_found"
        /\ pending_messages' = accept_cleanup(pending_messages, message_key)
        /\ hist' = [hist EXCEPT ![SignalOf(ev)].reveal = Min(2, @ + 1)]
        /\ handler_at' = "answer"
        /\ UNCHANGED <<directory, last_message_id, allowed_chat_id, agent_loaded, ev,
                       target, found, fx, loopvars>>

\* ignore and decline_accept: if key in ...: del ...[key]
DeclineDel ==
    LET key == decline_key(ev)
    IN  /\ handler_at = "decline_found"
        /\ pending_messages' = IF key \in DOMAIN pending_messages
                               THEN Del(pending_messages, key)
                               ELSE pending_messages
        /\ handler_at' = "answer"
        /\ UNCHANGED <<directory, last_message_id, allowed_chat_id, agent_loaded, ev,
                       target, found, fx, hist, loopvars>>

\* the press is acknowledged and the handler returns
HandlerReturn ==
    /\ handler_at = "answer"
    /\ handler_at' = "idle"
    /\ ev' = Idle
    /\ target' = NoEntry
    /\ found' = NoEntry
    /\ UNCHANGED <<pending_messages, directory, last_message_id, allowed_chat_id,
                   agent_loaded, fx, hist, loopvars>>

NextThreads ==
    \/ AdmitStore
    \/ HandlerGet \/ OpenStage \/ OpenPut \/ OpenDel \/ AcceptDel \/ DeclineDel
    \/ HandlerReturn

SpecThreads == Init /\ [][NextThreads]_vars

---------------------------------------------------------------------------
(* The polling loop of a listener that is configured with an allowed chat *)

\* TELEGRAM_ALLOWED_CHAT_ID is set: run_listener is started with that chat id
InitAllowed == ClientInit /\ allowed_chat_id \in Chats

\* the updates users of either chat cause: a press on the opening prompt, a
\* register press and a plain message
AllowedLoopEvents ==
    UNION {{CallbackQuery(c, "open", IntToStr(1), PromptId),
            CallbackQuery(c, "register", NoSfx, PromptId),
            Message(c, "yo")} : c \in Chats}

NextLoopAllowed ==
    \/ AdmitInLoop
    \/ ArriveOf(AllowedLoopEvents)
    \/ PollOk \/ PollFail \/ Advance \/ EndBatch
    \/ DispatchWith(FailsLoop)

SpecLoopAllowed == InitAllowed /\ [][NextLoopAllowed]_vars

---------------------------------------------------------------------------
(* The polling loop under fairness, while the recipient answers a signal *)

\* the presses of the buttons of the signal's two prompts
SignalPresses ==
    {CallbackQuery(LiveChat, a, IntToStr(1), PromptId) : a \in StageActions}

\* the recipient presses a button of a prompt: the opening prompt exists once
\* the signal was admitted, the stage-2 prompt at the earliest once an open
\* press has reached the call that sends it
ArrivePress ==
    \E cq \in SignalPresses :
        /\ Len(updates) < MaxUpdates
        /\ hist[SignalOf(cq)].admitted
        /\ StageOf(cq.action) = "accept" => hist[SignalOf(cq)].aprompt > 0
        /\ updates' = Append(updates, cq)
        /\ UNCHANGED <<handler_at, pending_messages, directory, last_message_id,
                       allowed_chat_id, agent_loaded, ev, target, found, fx, hist,
                       confirmed, offset, batch, cur, pc, observed, dispatched,
                       crashed, poll_failed>>

\* the calls of a dispatched handler that can fail
FailsFair ==
    {"delete_image", "delete_prompt", "accept_prompt", "edit", "reveal", "answer"}

DispatchFair == DispatchWith(FailsFair)

NextLoopAnswer ==
    \/ AdmitInLoop
    \/ ArrivePress
    \/ ArriveOf({Message(LiveChat, "yo")})
    \/ PollOk \/ PollFail \/ Advance \/ EndBatch
    \/ DispatchFair

\* the loop keeps running: a step it can take is taken, and a poll succeeds in
\* the end
SpecLoopAnswerFair ==
    /\ Init /\ [][NextLoopAnswer]_vars
    /\ WF_vars(PollOk) /\ WF_vars(Advance) /\ WF_vars(EndBatch)
    /\ WF_vars(DispatchFair)

---------------------------------------------------------------------------
(* Properties *)

\* a transport call that shows a text to a chat
IsText(c) ==
    c.op \in {"send_message", "edit_message_text", "answer_callback_query", "send_photo"}

\* a text that names a sender
ShowsHandle(c) == IsText(c) /\ TruthyStr(c.text.handle)

IsPress == ev.kind = "callback_query"

\* C1: a text naming the sender is sent only while an accept press from the
\* recipient's chat that found its stage-2 entry is handled, and it goes to that
\* chat; a stage-2 entry is stored only for a signal whose open press was handled.
C1_RevealOnlyOnAccept ==
    /\ \A i \in DOMAIN fx :
          ShowsHandle(fx[i]) =>
             /\ IsPress /\ ev.action = "accept"
             /\ target # NoEntry /\ target.stage = "accept"
             /\ fx[i].chat = ev.chat_id
             /\ fx[i].text.handle = target.sender_handle
    /\ \A k \in DOMAIN pending_messages :
          (k[2] = "accept" \/ pending_messages[k].stage = "accept") =>
             /\ <<k[1], pending_messages[k].image_message_id>> \in Signals
             /\ hist[<<k[1], pending_messages[k].image_message_id>>].opened

C1_Witness ==
    /\ IsPress /\ ev.action = "accept" /\ ev.chat_id = 2
    /\ \E i \in DOMAIN fx : ShowsHandle(fx[i]) /\ fx[i].text.handle = "u1"

\* the press resolves a stored interaction: accept or decline_accept on a
\* stage-2 entry, ignore on a stage-1 entry
Resolving ==
    /\ IsPress /\ target # NoEntry
    /\ ev.action \in {"accept", "ignore", "decline_accept"}

\* C2: once a resolving press has been handled the store holds no entry of that
\* signal, under its open key or under its accept key.
C2_NoDanglingEntry ==
    Resolving =>
       /\ Key(ev.chat_id, "open", ev.sfx) \notin DOMAIN pending_messages
       /\ Key(ev.chat_id, "accept", ev.sfx) \notin DOMAIN pending_messages
       /\ \A k \in DOMAIN pending_messages :
             ~(k[1] = ev.chat_id
               /\ pending_messages[k].image_message_id = target.image_message_id)

\* a press of a stage button whose prompt has no stored entry
AbsentPress(pm, cq) ==
    /\ cq.kind = "callback_query"
    /\ cq.action \in StageActions
    /\ Key(cq.chat_id, StageOf(cq.action), cq.sfx) \notin DOMAIN pm

\* what a decline press does whatever is stored: it retracts the message its token
\* names and the pressed prompt, says "Got it" to the pressing chat, acknowledges
DeclineTailCall(cq, c) ==
    \/ IsAnswer(c)
    \/ /\ c.op = "delete_message" /\ c.chat = cq.chat_id
       /\ c.mid \in {cq.message_id, initial_id(cq)}
    \/ /\ c.op = "send_message" /\ c.chat = cq.chat_id /\ c.text.tmpl = "kills"

C4_DeclinedIsTerminal ==
    [][(/\ ev = Idle
        /\ ev'.kind = "callback_query"
        /\ SignalOf(ev') \in Signals
        /\ hist[SignalOf(ev')].declined) =>
          /\ Count(fx', "reveal") = 0
          /\ Count(fx', "persist") = 0
          /\ Count(fx', "advice") = 0]_vars

\* C5: whatever presses are delivered and however often, each signal has at most
\* one identity reveal, one persistence write and one decline notice.
C5_AtMostOnce ==
    \A s \in Signals :
       /\ hist[s].reveal <= 1
       /\ hist[s].persist <= 1
       /\ hist[s].notify <= 1

\* an accept press is delivered again after the signal was revealed and stored
C5_Witness ==
    /\ InFlow(allowed_chat_id, ev) /\ ev.action = "accept" /\ target = NoEntry
    /\ SignalOf(ev) \in Signals
    /\ hist[SignalOf(ev)].reveal = 1
    /\ hist[SignalOf(ev)].persist = 1

\* the store after the open press ev has moved the entry target to stage 2
Moved ==
    /\ Key(ev.chat_id, "open", ev.sfx) \notin DOMAIN pending_messages
    /\ Key(ev.chat_id, "accept", ev.sfx) \in DOMAIN pending_messages
    /\ pending_messages[Key(ev.chat_id, "accept", ev.sfx)]
          = [target EXCEPT !.stage = "accept"]

OpensStage1 == IsPress /\ ev.action = "open" /\ target # NoEntry

C7_DeletesBeforeAcceptPrompt ==
    /\ \A i \in DOMAIN fx :
          IsAcceptPrompt(fx[i]) =>
             /\ OpensStage1
             /\ \E j \in 1..(i - 1) :
                   /\ fx[j].op = "delete_message" /\ fx[j].chat = ev.chat_id
                   /\ fx[j].mid = target.image_message_id
             /\ \E k \in 1..(i - 1) :
                   /\ fx[k].op = "delete_message" /\ fx[k].chat = ev.chat_id
                   /\ fx[k].mid = ev.message_id
    /\ (OpensStage1 /\ Key(ev.chat_id, "accept", ev.sfx) \in DOMAIN pending_messages)
          => Count(fx, "accept_prompt") = 1

\* an entry is advanced although the delete of its image failed
C7_Witness ==
    /\ OpensStage1 /\ Moved
    /\ \E i \in DOMAIN fx : IsAcceptPrompt(fx[i])
    /\ \E j \in DOMAIN fx : fx[j].step = "delete_image" /\ ~fx[j].ok

AcceptsStage2 == IsPress /\ ev.action = "accept" /\ target # NoEntry

PersistFailed == \E i \in DOMAIN fx : IsPersist(fx[i]) /\ ~fx[i].ok

PersistDone == \E i \in DOMAIN fx : IsPersist(fx[i]) /\ fx[i].ok

\* C8: an accept press that finds its stage-2 entry sends the reveal to the
\* recipient whether the persistence write succeeds, returns success=false or
\* raises; the texts differ only in the trailing storage annotation.
C8_RevealDespiteStoreFailure ==
    AcceptsStage2 =>
       \E i \in DOMAIN fx :
          /\ fx[i].op = "send_message" /\ fx[i].chat = ev.chat_id
          /\ [fx[i].text EXCEPT !.note = ""]
                = Text("reveal", NoneStr, target.sender_handle, "", <<>>)
          /\ PersistFailed => fx[i].text.note = ""
          /\ PersistDone => fx[i].text.note = "tx"

C8_Witness ==
    /\ AcceptsStage2 /\ PersistFailed
    /\ \E i \in DOMAIN fx : IsReveal(fx[i]) /\ fx[i].text.handle = "u1"

RECURSIVE Steps(_)
\* the effects attempted: the calls' steps, one per run of calls of the same step
Steps(calls) ==
    IF calls = <<>> THEN <<>>
    ELSE IF Len(calls) > 1 /\ calls[1].step = calls[2].step THEN Steps(Tail(calls))
    ELSE <<calls[1].step>> \o Steps(Tail(calls))

\* C9: whichever call of a press fails, the press attempts the same effects in
\* the same order and leaves the same store as when none fails; an accept with
\* a failed persistence write and a known sender still attempts the edit, the
\* reveal and the advisory call and removes the entry.
C9_FailuresDoNotStopLaterEffects ==
    /\ [][(ev = Idle /\ ev'.kind = "callback_query") =>
            LET clean == handle_callback_query(pending_messages, directory,
                                               allowed_chat_id, agent_loaded, ev', {})
            IN  /\ Steps(fx') = Steps(clean.r.fx)
                /\ pending_messages' = clean.r.pm]_vars
    /\ []((AcceptsStage2 /\ PersistFailed /\ TruthyStr(target.sender_handle)
           /\ agent_loaded) =>
            /\ \E i \in DOMAIN fx : fx[i].op = "edit_message_text"
            /\ \E i \in DOMAIN fx : IsReveal(fx[i])
            /\ \E i \in DOMAIN fx : IsAdvice(fx[i])
            /\ Key(ev.chat_id, "accept", ev.sfx) \notin DOMAIN pending_messages)

C9_Witness ==
    /\ AcceptsStage2 /\ PersistFailed /\ target.sender_handle = "u1" /\ agent_loaded
    /\ \E i \in DOMAIN fx : IsAdvice(fx[i])
    /\ Key(ev.chat_id, "accept", ev.sfx) \notin DOMAIN pending_messages

\* an ignore press on a stage-1 entry whose sender handle resolved
IgnoresResolved ==
    /\ IsPress /\ ev.action = "ignore" /\ target # NoEntry
    /\ TruthyStr(target.sender_handle)
    /\ \E i \in DOMAIN fx : fx[i].op = "resolve_chat_id" /\ fx[i].ok

\* C10: an ignore press on a stage-1 entry whose sender handle resolves sends the
\* decline notice to the sender's chat and removes the entry, and once a signal
\* has been ignored no accept prompt is sent for it.
C10_IgnoreNotifiesAndEnds ==
    /\ [](IgnoresResolved =>
            /\ \E i \in DOMAIN fx :
                  /\ IsNotify(fx[i])
                  /\ fx[i].chat = resolve_chat_id(directory, target.sender_handle, FALSE)
            /\ Key(ev.chat_id, "open", ev.sfx) \notin DOMAIN pending_messages
            /\ Count(fx, "accept_prompt") = 0)
    /\ [][\A s \in Signals :
            hist[s].ignored => (hist'[s].ignored /\ hist'[s].aprompt = hist[s].aprompt)]_vars
    /\ [](IsPress /\ SignalOf(ev) \in Signals /\ hist[SignalOf(ev)].ignored
          /\ ev.action # "ignore" => Count(fx, "accept_prompt") = 0)

\* the sender (chat 1) is told that chat 2 ignored the signal
C10_Witness ==
    /\ IgnoresResolved /\ ev.chat_id = 2
    /\ \E i \in DOMAIN fx : IsNotify(fx[i]) /\ fx[i].chat = 1 /\ fx[i].ok

\* the keys under which the store holds the signal of chat c with image id n
KeysOf(pm, c, n) ==
    {k \in DOMAIN pm : k[1] = c /\ k[3] = IntToStr(n)}

\* C11: each admitted signal has at most one entry in the store, never one
\* under its open key and one under its accept key; every entry is the entry of
\* the signal its key names, and no step replaces the entry stored under a key.
C11_OneEntryPerSignal ==
    /\ [](/\ \A c \in Chats, n \in MsgIds : Cardinality(KeysOf(pending_messages, c, n)) <= 1
          /\ \A k \in DOMAIN pending_messages :
                /\ k[2] \in {"open", "accept"}
                /\ <<k[1], pending_messages[k].image_message_id>> \in Signals
                /\ k[3] = IntToStr(pending_messages[k].image_message_id)
                /\ hist[<<k[1], pending_messages[k].image_message_id>>].admitted)
    /\ [][\A k \in DOMAIN pending_messages \cap DOMAIN pending_messages' :
            pending_messages'[k] = pending_messages[k]]_vars

\* two signals of chat 1 are pending at once, one opened and one not
C11_Witness ==
    /\ ev = Idle
    /\ Key(1, "accept", IntToStr(1)) \in DOMAIN pending_messages
    /\ Key(1, "open", IntToStr(2)) \in DOMAIN pending_messages

\* the chat has a row in the directory
Registered(dir, chat_id) == \E r \in dir : r.chat_id = chat_id

\* C12: an open, accept, ignore or decline_accept press from a chat that is not
\* registered leaves the store unchanged and has no stage effect: it makes no
\* call other than the send of the welcome prompt and the acknowledgment.
C12_UnregisteredPressIsGated ==
    [][(/\ ev = Idle
        /\ ev'.kind = "callback_query"
        /\ ev'.action \in StageActions
        /\ ~Registered(directory, ev'.chat_id)) =>
          /\ pending_messages' = pending_messages
          /\ \A i \in DOMAIN fx' :
                \/ fx'[i].op = "send_message" /\ fx'[i].text.tmpl = "welcome"
                \/ IsAnswer(fx'[i])]_vars

\* C13: the directory gains a row only while a register press is handled, and
\* the row is for the pressing chat; a plain message from a chat that is not
\* registered makes one call to the transport, the welcome prompt to that chat,
\* and none to the advisory agent.
C13_RegistrationOnlyByPress ==
    /\ [][directory' # directory =>
            /\ ev'.kind = "callback_query" /\ ev'.action = "register"
            /\ directory \subseteq directory'
            /\ \A r \in directory' \ directory : r.chat_id = ev'.chat_id]_vars
    /\ []((ev.kind = "message" /\ ~Registered(directory, ev.chat_id)) =>
            /\ \E i \in DOMAIN fx :
                  /\ fx[i].op = "send_message" /\ fx[i].chat = ev.chat_id
                  /\ fx[i].text.tmpl = "welcome"
            /\ \A i \in DOMAIN fx :
                  /\ fx[i].op # "agent"
                  /\ fx[i].op = "send_message" => fx[i].text.tmpl = "welcome")

\* chat 2 writes to the bot, which has an agent, after chat 1 has registered
C13_Witness ==
    /\ ev.kind = "message" /\ ev.chat_id = 2 /\ ev.text = "yo" /\ agent_loaded
    /\ ~Registered(directory, 2) /\ Registered(directory, 1)
    /\ \E i \in DOMAIN fx : fx[i].text.tmpl = "welcome" /\ fx[i].ok

\* C14: a register press from a chat that is already registered leaves exactly
\* one row for that chat in the directory, also when a directory call fails.
C14_RegisterIdempotent ==
    [][(/\ ev = Idle
        /\ ev'.kind = "callback_query" /\ ev'.action = "register"
        /\ Rows(directory, ev'.chat_id) # {}) =>
          Cardinality(Rows(directory', ev'.chat_id)) = 1]_vars


\* C15: during a run of the loop the poll cursor never decreases, and once the
\* loop has reached an update the cursor is greater than that update's id,
\* whether or not its handling succeeded
C15_CursorNeverDecreases ==
    /\ [][pc # "down" => offset' >= offset]_vars
    /\ [](\A id \in observed : offset > id)

\* the second update has been handled with a failed call, and the cursor is past it
C15_Witness ==
    /\ pc = "iter"
    /\ cur = 2
    /\ dispatched = {1, 2}
    /\ \E i \in DOMAIN fx : ~fx[i].ok
    /\ offset = 3

\* C16: when an update is dispatched the cursor is already past it, and no
\* update is dispatched twice within one run
C16_AdvancedBeforeDispatch ==
    [](pc = "dispatch" => /\ offset = cur + 1
                          /\ cur \notin dispatched)

\* the third update is dispatched after a poll that passed the cursor 3
C16_Witness ==
    /\ pc = "dispatch"
    /\ cur = 3
    /\ dispatched = {1, 2}
    /\ confirmed = 3

\* C17: an update in whose dispatch the process terminated is not dispatched
\* again and again by the restarted loop: from some point on it is skipped
C17_CrashedUpdateEventuallySkipped ==
    \A id \in 1..MaxUpdates : <>[]~(pc = "dispatch" /\ cur = id)


\* C18: once a press with one of the actions open, accept, ignore,
\* decline_accept, register has been handled, exactly one acknowledgment of it
\* was attempted
C18_AcknowledgedExactlyOnce ==
    (IsPress /\ ev.action \in StageActions \cup {"register"}) =>
        Count(fx, "answer") = 1

\* C19: the decline notice is sent only while an ignore press that found its
\* stage-1 entry with a sender handle is handled; a decline_accept press sends
\* no decline notice, resolves no sender, and every message it sends goes to the
\* pressing chat
C19_NoticeOnlyOnIgnore ==
    /\ \A i \in DOMAIN fx :
          IsNotify(fx[i]) =>
             /\ IsPress /\ ev.action = "ignore"
             /\ target # NoEntry /\ target.stage = "open"
             /\ TruthyStr(target.sender_handle)
    /\ (IsPress /\ ev.action = "decline_accept") =>
          \A i \in DOMAIN fx :
             /\ ~IsNotify(fx[i])
             /\ fx[i].op # "resolve_chat_id"
             /\ IsText(fx[i]) /\ ~IsAnswer(fx[i]) => fx[i].chat = ev.chat_id

\* a decline_accept press on a stage-2 entry that names a sender: no notice
C19_Witness ==
    /\ IsPress /\ ev.action = "decline_accept"
    /\ target # NoEntry /\ target.stage = "accept"
    /\ TruthyStr(target.sender_handle)
    /\ \E i \in DOMAIN fx : fx[i].text.tmpl = "kills" /\ fx[i].ok
    /\ Count(fx, "notify") = 0

\* C20: once a decline press on a stored entry has been handled, the neutral
\* message to the pressing chat was attempted, the store holds no entry of the
\* signal, and no text of the press names the sender
C20_DeclineEndsInteraction ==
    (IsPress /\ ev.action \in {"ignore", "decline_accept"} /\ target # NoEntry) =>
        /\ \E i \in DOMAIN fx :
              /\ fx[i].op = "send_message" /\ fx[i].text.tmpl = "kills"
              /\ fx[i].chat = ev.chat_id
        /\ Key(ev.chat_id, "open", ev.sfx) \notin DOMAIN pending_messages
        /\ Key(ev.chat_id, "accept", ev.sfx) \notin DOMAIN pending_messages
        /\ \A i \in DOMAIN fx : ~ShowsHandle(fx[i])


\* the kinds of update run_listener hands to a handler
Dispatchable(id) == updates[id].kind \in {"callback_query", "message"}

\* C21: the loop takes the updates of a batch in the order the transport
\* returned them (ascending ids), one at a time, none passed over: when an update
\* is dispatched every earlier update of the run has been handled to its end.
\* A failed poll dispatches nothing and leaves the cursor, the batch and the
\* store as they were, and the loop is at the poll again.
C21_BatchOrderAndPollFailure ==
    /\ [][(cur' # cur /\ cur' # NoneId) =>
             /\ batch # <<>>
             /\ \A i \in DOMAIN batch : cur' <= batch[i]
             /\ \A id \in observed : id < cur']_vars
    /\ [](pc = "dispatch" =>
             \A id \in observed \ {cur} : Dispatchable(id) => id \in dispatched)
    /\ [][(pc = "poll" /\ ~poll_failed /\ poll_failed') =>
             /\ pc' = "poll"
             /\ offset' = offset
             /\ pending_messages' = pending_messages
             /\ directory' = directory
             /\ dispatched' = dispatched
             /\ fx' = fx]_vars

\* a batch of two updates was dispatched in order, then a poll failed
C21_Witness ==
    /\ pc = "poll" /\ poll_failed
    /\ confirmed = 1
    /\ dispatched = {1, 2}
    /\ offset = 3


\* the listener finishes the handler of the update it is at
Handled == pc = "dispatch" /\ pc' = "iter"

\* C22: whatever call failed while an update was handled, the handler ran to
\* its end (a press of the flow ends with its acknowledgment attempted), the
\* loop is at the for loop again with the rest of the batch still to be taken
\* and the cursor where it was; after a failed poll the loop is at the poll
C22_FailuresDoNotStopLoop ==
    /\ [][Handled =>
             /\ batch' = batch
             /\ offset' = offset
             /\ dispatched' = dispatched \cup {cur}
             /\ InFlow(allowed_chat_id, ev') => IsAnswer(fx'[Len(fx')])
             /\ ev'.kind = "message" => \E i \in DOMAIN fx' : fx'[i].op = "send_message"]_vars
    /\ [][poll_failed' => pc' = "poll"]_vars
    /\ [](pc = "iter" /\ batch # <<>> => ENABLED Advance)

\* the open press was handled with a failed call, and the loop has gone on to
\* dispatch the next update of the batch
C22_Witness ==
    /\ pc = "dispatch" /\ cur = 2
    /\ dispatched = {1}
    /\ ev.action = "open" /\ target # NoEntry
    /\ \E i \in DOMAIN fx : ~fx[i].ok /\ fx[i].op = "delete_message"


\* C23: a press whose token has no correlation id, or one that int() rejects,
\* takes the transition of its action all the same: the entry the pressing chat
\* holds at the stage of the pressed button is advanced (open) or removed
\* (accept, ignore)
C23_TransitionIgnoresCorrelationId ==
    [][(/\ ev = Idle
        /\ InFlow(allowed_chat_id, ev')
        /\ ev'.action \in {"open", "accept", "ignore"}
        /\ ev'.sfx \in {NoSfx, "x"}) =>
          \A k \in DOMAIN pending_messages :
             (/\ k[1] = ev'.chat_id
              /\ k[2] = StageOf(ev'.action)
              /\ TruthyStr(pending_messages[k].message)) =>
                 k \notin DOMAIN pending_messages']_vars


\* C24: a press that carries the token of one signal leaves every entry of
\* another signal as it was: same key, same payload, same stage; and it stores
\* nothing under a key of another signal
C24_SignalsIndependent ==
    [][(ev = Idle /\ ev'.kind = "callback_query") =>
          /\ \A k \in DOMAIN pending_messages :
                (k[1] # ev'.chat_id \/ k[3] # ev'.sfx) =>
                   /\ k \in DOMAIN pending_messages'
                   /\ pending_messages'[k] = pending_messages[k]
          /\ \A k \in DOMAIN pending_messages' \ DOMAIN pending_messages :
                k[1] = ev'.chat_id /\ k[3] = ev'.sfx]_vars

\* chat 1 has accepted signal 1 while its signal 2 still waits at stage 1
C24_Witness ==
    /\ IsPress /\ ev.chat_id = 1 /\ ev.action = "accept" /\ ev.sfx = IntToStr(1)
    /\ target # NoEntry
    /\ DOMAIN pending_messages = {Key(1, "open", IntToStr(2))}
    /\ hist[<<1, 2>>].admitted /\ ~hist[<<1, 2>>].opened


\* POST /send has been handled
IsSend == ev.kind = "send"

\* the image of the admitted signal was sent
ImageSent == \E i \in DOMAIN fx : fx[i].op = "send_photo" /\ fx[i].ok

\* C25: once POST /send for a target that resolves has sent the image, the
\* store holds the signal's entry at stage open under '<chat>:open:<image id>',
\* written after the image was sent and before the opening prompt, and the
\* caller is told of the success
C25_AdmissionCreatesEntry ==
    (IsSend /\ ev.chat_id # NoneId /\ ImageSent) =>
        LET key == Key(ev.chat_id, "open", IntToStr(last_message_id[ev.chat_id]))
        IN  /\ ev.status = 200
            /\ key \in DOMAIN pending_messages
            /\ pending_messages[key].stage = "open"
            /\ pending_messages[key].image_message_id = last_message_id[ev.chat_id]
            /\ \E i, j, k \in DOMAIN fx :
                  /\ i < j /\ j < k
                  /\ fx[i].op = "send_photo"
                  /\ fx[j].op = "put_pending" /\ fx[j].key = key
                  /\ fx[k].op = "send_message" /\ fx[k].text.tmpl = "decision_prompt"

\* a handle the directory resolves, or digits
Resolvable(dir, h) ==
    /\ TruthyStr(h)
    /\ \/ StrToInt(h) # NoneId
       \/ \E r \in dir : TruthyStr(r.username) /\ Normalize(r.username) = Normalize(h)

\* the target handle of the request POST /send handled
SendHandle(calls) == calls[1].text.handle

\* C28: POST /send for a target that is missing or that the directory does not
\* resolve answers 400 and does nothing: no image, no prompt, the store and the
\* message ids as before; a target that resolves is not answered 400
C28_UnresolvableTargetRejected ==
    [][(ev = Idle /\ ev'.kind = "send") =>
          IF Resolvable(directory, SendHandle(fx')) /\ fx'[1].ok
          THEN ev'.status # 400
          ELSE /\ ev'.status = 400
               /\ pending_messages' = pending_messages
               /\ last_message_id' = last_message_id
               /\ \A i \in DOMAIN fx' : fx'[i].op = "resolve_chat_id"]_vars

\* chat 1 is registered as u1, and a signal for the unknown handle zz is rejected
C28_Witness ==
    /\ IsSend /\ ev.status = 400
    /\ SendHandle(fx) = "zz"
    /\ \E r \in directory : r.username = "u1"
    /\ Len(fx) = 1


\* a plain message from a chat the registration check found registered
RegisteredMessage ==
    /\ ev.kind = "message"
    /\ Registered(directory, ev.chat_id)
    /\ fx # <<>> /\ fx[1].op = "is_chat_registered" /\ fx[1].ok

IsAgentReply(c) == c.op = "send_message" /\ c.text.tmpl = "agent_reply"

IsGenericPrompt(c) ==
    /\ c.op = "send_message" /\ c.text.tmpl = "decision_prompt"
    /\ c.text.btn = <<"open", "ignore", NoSfx>>

\* C27: a plain message with text from a registered chat is passed to the agent
\* and the agent's reply is sent to that chat; when there is no agent or the
\* agent raises, the generic prompt is sent to the chat instead; handling the
\* message leaves the store and the directory as they were
C27_PlainMessageToAgent ==
    /\ [](RegisteredMessage =>
            /\ (agent_loaded /\ TruthyStr(ev.text)) =>
                  \E i \in DOMAIN fx : fx[i].op = "agent" /\ fx[i].text.msg = ev.text
            /\ (\E i \in DOMAIN fx : fx[i].op = "agent" /\ fx[i].ok) =>
                  \E i \in DOMAIN fx : IsAgentReply(fx[i]) /\ fx[i].chat = ev.chat_id
            /\ (~agent_loaded \/ \E i \in DOMAIN fx : fx[i].op = "agent" /\ ~fx[i].ok) =>
                  /\ \E i \in DOMAIN fx : IsGenericPrompt(fx[i]) /\ fx[i].chat = ev.chat_id
                  /\ \A i \in DOMAIN fx : ~IsAgentReply(fx[i])
            /\ (\E i \in DOMAIN fx : IsAgentReply(fx[i]) /\ fx[i].ok) =>
                  \A i \in DOMAIN fx : ~IsGenericPrompt(fx[i])
            /\ \A i \in DOMAIN fx : fx[i].op \notin {"put_pending", "del_pending"})
    /\ [][(ev = Idle /\ ev'.kind = "message") =>
             /\ pending_messages' = pending_messages
             /\ directory' = directory]_vars

\* chat 1, registered and with a signal waiting, writes to the bot; the agent
\* raises and the generic prompt is sent
C27_Witness ==
    /\ RegisteredMessage /\ ev.chat_id = 1 /\ ev.text = "yo"
    /\ \E i \in DOMAIN fx : fx[i].op = "agent" /\ ~fx[i].ok
    /\ \E i \in DOMAIN fx : IsGenericPrompt(fx[i]) /\ fx[i].ok
    /\ Key(1, "open", IntToStr(1)) \in DOMAIN pending_messages


\* the call that makes the effect named, by the step of the accept branch
AcceptEffect(step, c) ==
    CASE step = "persist" -> IsPersist(c)
      [] step = "edit" -> c.op = "edit_message_text" /\ c.mid = ev.message_id
      [] step = "reveal" -> IsReveal(c) /\ c.chat = ev.chat_id
      [] step = "advice" -> c.op \in {"get_username_by_chat_id", "agent",
                                      "resolve_chat_id", "send_message"}
      [] step = "cleanup" -> c.op = "del_pending"
                             /\ c.key = Key(ev.chat_id, "accept", ev.sfx)
      [] step = "answer" -> IsAnswer(c)
      [] OTHER -> FALSE

\* C30: an accept press that finds its stage-2 entry attempts its effects in
\* this order, whatever fails: the persistence write, the edit of the accept
\* prompt, the reveal to the recipient, the advice for the sender (when the
\* entry names a sender and there is an agent), the removal of the entry, the
\* acknowledgment
C30_AcceptEffectOrder ==
    AcceptsStage2 =>
        /\ Steps(fx) = <<"persist", "edit", "reveal">>
                       \o (IF TruthyStr(target.sender_handle) /\ agent_loaded
                           THEN <<"advice">> ELSE <<>>)
                       \o <<"cleanup", "answer">>
        /\ \A i \in DOMAIN fx : AcceptEffect(fx[i].step, fx[i])

\* all six effects were attempted, the edit failed
C30_Witness ==
    /\ AcceptsStage2
    /\ Len(Steps(fx)) = 6
    /\ \E i \in DOMAIN fx : fx[i].step = "edit" /\ ~fx[i].ok
    /\ \E i \in DOMAIN fx : fx[i].step = "advice" /\ fx[i].op = "send_message" /\ fx[i].ok


\* the press ev' is a press of a button of the prompt whose entry is stored
\* under the key k
OwnPress(k) ==
    /\ ev'.kind = "callback_query"
    /\ ev'.action \in StageActions
    /\ ev'.chat_id = k[1]
    /\ StageOf(ev'.action) = k[2]
    /\ ev'.sfx = k[3]

\* C29: an entry stays in the store, unchanged, through every step of the loop
\* (polls that fail or succeed, iterations, plain messages, register presses,
\* presses for other keys, admissions) except the handling of a press of a button
\* of its own prompt
C29_RemovedOnlyByOwnPress ==
    [][\A k \in DOMAIN pending_messages :
          \/ /\ k \in DOMAIN pending_messages'
             /\ pending_messages'[k] = pending_messages[k]
          \/ Handled /\ OwnPress(k)]_vars

\* after a plain message and a press for another key were handled, the signal
\* was opened and is now accepted
C29_Witness ==
    /\ ev.action = "accept" /\ target # NoEntry
    /\ cur = 3 /\ dispatched = {1, 2, 3}
    /\ updates[1].kind = "message"
    /\ updates[2].action = "open"
    /\ hist[<<LiveChat, 1>>].reveal = 1


\* the handler of the open press of the signal s is between its read of the
\* store and its write of the stage-2 key
Opening(s) ==
    /\ handler_at \in {"open_found", "open_staged"}
    /\ ev.chat_id = s[1] /\ ev.sfx = IntToStr(s[2])

\* the entry of the signal with image id n once it was moved to stage 2
AdvancedEntry(n) == [AdmittedEntry(n) EXCEPT !.stage = "accept"]

\* C26: whatever way the admission of signals and the store operations of the
\* handlers interleave, (1) the entry of an admitted signal that no press has
\* found yet is in the store under its open key, as admitted, and the entry of
\* an opened signal not yet accepted is there under its accept key; (2) what the
\* handler reads from the store is nothing or a whole entry as admitted; (3) a
\* key is put into the store only by the admission of a signal not admitted
\* before, or by the open handler for the stage-2 key of the signal it is moving
C26_AdmissionAtomic ==
    /\ [](\A s \in Signals :
            LET open_key == Key(s[1], "open", IntToStr(s[2]))
                accept_key == Key(s[1], "accept", IntToStr(s[2]))
            IN  /\ (hist[s].admitted /\ ~hist[s].opened /\ ~hist[s].ignored) =>
                      /\ open_key \in DOMAIN pending_messages
                      /\ pending_messages[open_key] = AdmittedEntry(s[2])
                /\ (hist[s].opened /\ hist[s].reveal = 0 /\ ~Opening(s)) =>
                      /\ accept_key \in DOMAIN pending_messages
                      /\ pending_messages[accept_key] = AdvancedEntry(s[2])
                /\ ~hist[s].admitted =>
                      /\ open_key \notin DOMAIN pending_messages
                      /\ accept_key \notin DOMAIN pending_messages)
    /\ [](found # NoEntry =>
            found \in {AdmittedEntry(found.image_message_id),
                       AdvancedEntry(found.image_message_id)})
    /\ [][\A k \in DOMAIN pending_messages' \ DOMAIN pending_messages :
             LET s == <<k[1], StrToInt(k[3])>>
             IN  \/ k[2] = "open" /\ ~hist[s].admitted /\ hist'[s].admitted
                 \/ k[2] = "accept" /\ handler_at = "open_staged" /\ Opening(s)
                    /\ hist[s].reveal = 0]_vars

\* the handler of chat 1's open press has written the stage-2 key and not yet
\* deleted the open key, while the entry of the chat's second signal is stored
C26_Witness ==
    /\ handler_at = "open_stored"
    /\ ev.chat_id = 1 /\ ev.sfx = IntToStr(1)
    /\ DOMAIN pending_messages = {Key(1, "open", IntToStr(1)),
                                  Key(1, "accept", IntToStr(1)),
                                  Key(1, "open", IntToStr(2))}


\* the stage tokens under which the flow stores entries
StoredStages == {"open", "accept"}

\* C31: between two dispatches every stored entry's stage is the stage token of
\* its key ("open" under '<chat>:open...', "accept" under '<chat>:accept...'),
\* and no entry is stored under an ignore or a decline_accept key
C31_StageAgreesWithKey ==
    \A k \in DOMAIN pending_messages :
        /\ k[2] \in StoredStages
        /\ pending_messages[k].stage = k[2]

\* an open press has moved the entry of a signal under its stage-2 key while
\* nothing else is stored
C31_Witness ==
    /\ ev.action = "open" /\ target # NoEntry
    /\ DOMAIN pending_messages = {Key(ev.chat_id, "accept", ev.sfx)}
    /\ pending_messages[Key(ev.chat_id, "accept", ev.sfx)].stage = "accept"


\* the admission handled last could not send its opening prompt
PromptFailed ==
    /\ ev.kind = "admit"
    /\ \E i \in DOMAIN fx : fx[i].step = "prompt" /\ ~fx[i].ok

\* C32: when the opening prompt of an admission could not be sent, the store
\* holds no stage-1 entry for the signal that was being admitted
C32_EntryOnlyIfPromptSent ==
    PromptFailed =>
        Key(ev.chat_id, "open", IntToStr(last_message_id[ev.chat_id]))
            \notin DOMAIN pending_messages


\* the open press handled last found its entry and could not send the stage-2
\* prompt
AcceptPromptFailed ==
    /\ ev.kind = "callback_query" /\ ev.action = "open"
    /\ \E i \in DOMAIN fx : IsAcceptPrompt(fx[i]) /\ ~fx[i].ok

\* C33: after an open press whose stage-2 prompt could not be sent, the store
\* holds no stage-2 entry under the key that prompt's buttons would have carried
C33_Stage2OnlyIfPromptSent ==
    AcceptPromptFailed =>
        Key(ev.chat_id, "accept", accept_data_sfx(initial_id(ev)))
            \notin DOMAIN pending_messages


\* a transport call whose text carries the message content of an entry
ShowsMessage(c) == IsText(c) /\ c.text.msg # NoneStr

\* C34: a call that shows a chat the stored message content is made only while
\* a press that found its entry is handled, goes to the pressing chat with that
\* entry's message, and is the stage-2 prompt of an open press that found a
\* stage-1 entry or the edit of the prompt of an accept press that found a
\* stage-2 entry; admissions, plain messages, declines, register presses and
\* presses without an entry show no message content
C34_ContentOnlyOnOpenOrAccept ==
    \A i \in DOMAIN fx :
        ShowsMessage(fx[i]) =>
            /\ ev.kind = "callback_query"
            /\ target # NoEntry
            /\ fx[i].text.msg = target.message
            /\ fx[i].chat = ev.chat_id
            /\ \/ /\ ev.action = "open" /\ target.stage = "open"
                  /\ IsAcceptPrompt(fx[i])
               \/ /\ ev.action = "accept" /\ target.stage = "accept"
                  /\ fx[i].op = "edit_message_text"
                  /\ fx[i].text.tmpl = "message_text"

\* the accept press of a signal that was opened has put the message into the
\* prompt it edits
C34_Witness ==
    /\ ev.action = "accept" /\ target # NoEntry
    /\ hist[SignalOf(ev)].aprompt = 1
    /\ \E i \in DOMAIN fx : /\ fx[i].op = "edit_message_text" /\ fx[i].ok
                            /\ fx[i].text.msg = "hi" /\ fx[i].chat = ev.chat_id


\* the step is the handling of a button press by the listener
PressHandled == ev = Idle /\ ev'.kind = "callback_query"

\* C35: while a press from one chat is handled, every entry keyed to another
\* chat stays in the store as it was and no key of another chat appears, what
\* the handler looked up was stored under a key of the pressing chat, nothing is
\* recorded for a signal of another chat, and a reveal goes to the pressing
\* chat, for a signal admitted to that chat, naming the sender of the entry
\* stored under that chat's key
C35_ChatsIsolated ==
    [][PressHandled =>
          /\ \A k \in DOMAIN pending_messages :
                k[1] # ev'.chat_id => /\ k \in DOMAIN pending_messages'
                                      /\ pending_messages'[k] = pending_messages[k]
          /\ \A k \in DOMAIN pending_messages' :
                k[1] # ev'.chat_id => k \in DOMAIN pending_messages
          /\ found' # NoEntry =>
                \E k \in DOMAIN pending_messages :
                    /\ k[1] = ev'.chat_id /\ k[3] = ev'.sfx
                    /\ pending_messages[k] = found'
          /\ \A s \in Signals : s[1] # ev'.chat_id => hist'[s] = hist[s]
          /\ \A i \in DOMAIN fx' :
                IsReveal(fx'[i]) =>
                    /\ fx'[i].chat = ev'.chat_id
                    /\ hist[SignalOf(ev')].admitted
                    /\ fx'[i].text.handle = target'.sender_handle]_vars

\* chat 1 and chat 2 both held an entry under the token 'accept:1', from
\* different senders; chat 1's accept press was handled and revealed its
\* sender, and chat 2's entry is still stored
C35_Witness ==
    /\ ev.action = "accept" /\ ev.chat_id = 1 /\ ev.sfx = IntToStr(1)
    /\ target # NoEntry /\ target.sender_handle = "u1"
    /\ \E i \in DOMAIN fx : IsReveal(fx[i]) /\ fx[i].ok
    /\ DOMAIN pending_messages = {Key(2, "accept", IntToStr(1))}
    /\ pending_messages[Key(2, "accept", IntToStr(1))].sender_handle = NoHandle


\* the update e is a message or a press from a chat other than the allowed one
FromOtherChat(e) ==
    /\ allowed_chat_id # NoneId
    /\ e.kind \in {"callback_query", "message"}
    /\ e.chat_id # allowed_chat_id

\* C36: with an allowed chat configured, the handling of a message or a press
\* from another chat makes no call at all (no send, edit, delete or
\* acknowledgment, no directory, agent or persistence call) and leaves the
\* store, the directory and what was attempted for every signal as they were,
\* and the cursor stands past that update when its handler returns
C36_OtherChatsAreIgnored ==
    [][(Handled /\ FromOtherChat(updates[cur])) =>
          /\ fx' = <<>>
          /\ pending_messages' = pending_messages
          /\ directory' = directory
          /\ hist' = hist
          /\ offset' = cur + 1]_vars

\* the listener allows chat 1 only; chat 2 pressed "open" on the prompt of its
\* stored signal: the press was handed to the handler, nothing was called, the
\* entry is where it was and the cursor is past the update
C36_Witness ==
    /\ allowed_chat_id = 1
    /\ ev.kind = "callback_query" /\ ev.chat_id = 2 /\ ev.action = "open"
    /\ cur \in dispatched /\ updates[cur] = ev /\ pc = "iter"
    /\ fx = <<>>
    /\ Key(2, "open", IntToStr(1)) \in DOMAIN pending_messages
    /\ offset = cur + 1


\* the signal the recipient answers
AnsweredSignal == <<LiveChat, 1>>

\* the transport holds an open press of the signal's opening prompt and, after
\* it, an accept press of its stage-2 prompt
OpenThenAccept ==
    /\ hist[AnsweredSignal].admitted
    /\ \E i, j \in DOMAIN updates :
          /\ i < j
          /\ updates[i] = CallbackQuery(LiveChat, "open", IntToStr(1), PromptId)
          /\ updates[j] = CallbackQuery(LiveChat, "accept", IntToStr(1), PromptId)

\* the reveal of the signal was attempted and the store holds no entry of it
RevealedAndRemoved ==
    /\ hist[AnsweredSignal].reveal > 0
    /\ Key(LiveChat, "open", IntToStr(1)) \notin DOMAIN pending_messages
    /\ Key(LiveChat, "accept", IntToStr(1)) \notin DOMAIN pending_messages

\* C37: while the loop keeps running and its polls succeed in the end, once the
\* open press and a later accept press of an admitted signal with a message
\* have reached the transport, the reveal of the signal is attempted and its
\* entry is removed from the store, whatever other presses and messages arrive
\* and whichever single call of a handler fails
C37_AcceptedSignalIsRevealed == OpenThenAccept ~> RevealedAndRemoved

\* the accept press was handled after the open press and a decline of the
\* stage-2 prompt: the reveal was attempted though its send failed, and the
\* store is empty
C37_Witness ==
    /\ OpenThenAccept /\ RevealedAndRemoved
    /\ Len(updates) = 3 /\ updates[2].action = "decline_accept"
    /\ ev.action = "accept" /\ cur = 3
    /\ \E i \in DOMAIN fx : IsReveal(fx[i]) /\ ~fx[i].ok
    /\ pending_messages = [k \in {} |-> NoEntry]

====
